---- MODULE Spec2Model ----
(***************************************************************************)
(* OBS stream control: the OBSController of obs_live.py (connect with the  *)
(* obs-websocket handshake, start/stop/status requests, schedule_stream,   *)
(* disconnect), main of obs_live.py, and the trigger start_stream and the   *)
(* scheduler loop of obs-auto.py.                                          *)
(*                                                                         *)
(* The controller is one coroutine: its position is pc, and it suspends    *)
(* only where the code awaits (websockets.connect, recv, send, sleep,      *)
(* close).  The OBS server and the wall clock are the environment.         *)
(***************************************************************************)
EXTENDS Integers, Sequences, FiniteSets, TLC

VARIABLES
    driver,      \* who drives the controller: "api" | "trigger" | "main" | "scheduler"
    args,        \* the command line of main (action, time, duration)
    password,    \* self.password (NoPassword models None)
    websocket,   \* self.websocket: 0 models None, else the id of a connection
    conns,       \* connection id -> "unopened" | "open" | "closed"
    identified,  \* connect() returned True for the connection self.websocket names
    inbox,       \* messages the server sent on the current connection, not yet received
    sent,        \* messages this controller sent on the current connection
    pc,          \* position of the controller's coroutine
    cmd,         \* the request being issued: "start" | "stop" | "status" | "none"
    hello_data,  \* connect()'s local hello_data
    sched,       \* schedule_stream's frame (its locals and position)
    result,      \* outcome of the last finished operation
    now,         \* the wall clock
    tpc,         \* position of the trigger start_stream
    mpc,         \* position of main
    nDisconnect, \* number of disconnect() executions
    outstanding, \* requests sent on the current connection whose reply was not received
    loop         \* position of the scheduler loop of obs-auto.py and its polls

vars == <<driver, args, password, websocket, conns, identified, inbox, sent, pc, cmd,
          hello_data, sched, result, now, tpc, mpc, nDisconnect, outstanding, loop>>

-----------------------------------------------------------------------------
(* Bounds of the model.                                                    *)

MaxConns == 2
MaxSent == 2
MaxDisconnects == 2
MaxPolls == 2

-----------------------------------------------------------------------------
(* Program constants.                                                      *)

RpcVersion == 1
OpIdentify == 1
OpIdentified == 2
OpRequest == 6

NoPassword == "<None>"
TriggerPassword == "Oindia001"

RequestType(c) ==
    CASE c = "start" -> "StartStream"
      [] c = "stop" -> "StopStream"
      [] c = "status" -> "GetStreamStatus"

RequestId(c) ==
    CASE c = "start" -> "start-stream"
      [] c = "stop" -> "stop-stream"
      [] c = "status" -> "get-stream-status"

Commands == {"start", "stop", "status"}

\* Python truthiness of self.password: None and "" are falsy.
Truthy(p) == p # NoPassword /\ p # ""

-----------------------------------------------------------------------------
(* Wire text.  A text is either not JSON, or the JSON object it encodes;   *)
(* json.loads raises JSONDecodeError (a ValueError) on the former.         *)

Text(obj) == [json |-> TRUE, v |-> obj]
Garbage == [json |-> FALSE]

Has(obj, k) == k \in DOMAIN obj

\* Messages the server may put on the connection.
Hellos ==
    { Text([op |-> 0, d |-> [rpcVersion |-> 1]]),
      Text([op |-> 0, d |-> [rpcVersion |-> 1,
                             authentication |-> [challenge |-> "c1", salt |-> "s1"]]]),
      Text([op |-> 0, d |-> [rpcVersion |-> 1,
                             authentication |-> [challenge |-> "c2", salt |-> "s2"]]]) }

Acks ==
    { Text([op |-> 2, d |-> [negotiatedRpcVersion |-> 1]]),
      Text([op |-> 5, d |-> [eventType |-> "StreamStateChanged"]]),
      Text([d |-> [negotiatedRpcVersion |-> 1]]) }

Statuses ==
    { [result |-> TRUE, code |-> 100],
      [result |-> FALSE, code |-> 500, comment |-> "busy"],
      [result |-> FALSE, code |-> 500] }

Replies ==
    { Text([op |-> 7, d |-> [requestType |-> RequestType(c), requestId |-> RequestId(c),
                             requestStatus |-> st]]) : c \in Commands, st \in Statuses }
    \cup
    { Text([op |-> 7, d |-> [requestType |-> "GetStreamStatus",
                             requestId |-> "get-stream-status",
                             requestStatus |-> [result |-> TRUE, code |-> 100],
                             responseData |-> [outputActive |-> a, outputDuration |-> 5,
                                               outputBytes |-> 9]]]) : a \in BOOLEAN }

ServerMsgs == Hellos \cup Acks \cup Replies \cup {Garbage, Text([op |-> 0])}

-----------------------------------------------------------------------------
(* Outcomes of operations.  An operation returns (val) or raises (exc);    *)
(* printed is the diagnostic it printed, detail the text it printed in it. *)

Outcome(op, kind, val, exc, printed, detail, reply) ==
    [op |-> op, kind |-> kind, val |-> val, exc |-> exc, printed |-> printed,
     detail |-> detail, reply |-> reply]

NoReply == [json |-> FALSE, none |-> TRUE]
NoOutcome == Outcome("none", "return", "None", "", "", "", NoReply)

Return(op, val, printed, detail, reply) == Outcome(op, "return", val, "", printed, detail, reply)
Raise(op, exc, reply) == Outcome(op, "raise", "None", exc, "", "", reply)

-----------------------------------------------------------------------------
(* The handshake's pure parts.                                             *)

\* base64.b64encode(hashlib.sha256(s.encode()).digest()).decode(): SHA-256 is
\* modelled as collision free, so the digest text is an injective function of s.
B64Sha256(s) == "b64(sha256(" \o s \o "))"

\* The token of _send_identify: two hash stages over string concatenations.
AuthResponse_NoSalt(pw, salt, challenge) ==
    LET secret == B64Sha256(pw)
    IN  B64Sha256(secret \o challenge)

AuthResponse(pw, salt, challenge) ==
    LET secret == B64Sha256(pw \o salt)
    IN  B64Sha256(secret \o challenge)

\* _send_identify up to its final send: the Identify message it builds, or the
\* exception it raises before sending.
BuildIdentify_NoPasswordCheck(hd, pw) ==
    IF ~Has(hd, "d") THEN [exc |-> "KeyError"]
    ELSE [exc |-> "", msg |-> [op |-> OpIdentify, d |-> [rpcVersion |-> RpcVersion]]]

BuildIdentify_TokenWheneverPassword(hd, pw) ==
    IF ~Has(hd, "d") THEN [exc |-> "KeyError"]
    ELSE IF Truthy(pw)
    THEN [exc |-> "",
          msg |-> [op |-> OpIdentify,
                   d |-> [rpcVersion |-> RpcVersion,
                          authentication |-> AuthResponse(pw, "", "")]]]
    ELSE [exc |-> "", msg |-> [op |-> OpIdentify, d |-> [rpcVersion |-> RpcVersion]]]

BuildIdentify(hd, pw) ==
    IF ~Has(hd, "d") THEN [exc |-> "KeyError"]
    ELSE IF Has(hd.d, "authentication")
    THEN LET auth_data == hd.d.authentication
         IN  IF ~Has(auth_data, "challenge") \/ ~Has(auth_data, "salt")
             THEN [exc |-> "KeyError"]
             ELSE IF Truthy(pw)
             THEN [exc |-> "",
                   msg |-> [op |-> OpIdentify,
                            d |-> [rpcVersion |-> RpcVersion,
                                   authentication |->
                                       AuthResponse(pw, auth_data.salt, auth_data.challenge)]]]
             \* Exception("Authentication required but no password provided")
             ELSE [exc |-> "AuthRequired"]
    ELSE [exc |-> "", msg |-> [op |-> OpIdentify, d |-> [rpcVersion |-> RpcVersion]]]

\* connect()'s verdict on the text received after Identify: "True", "False",
\* or the exception raised while reading it (which connect() turns into False).
IdentifiedVerdict_AnyOp(text) ==
    IF ~text.json THEN "JSONDecodeError"
    ELSE IF ~Has(text.v, "op") THEN "KeyError"
    ELSE "True"

IdentifiedVerdict(text) ==
    IF ~text.json THEN "JSONDecodeError"
    ELSE IF ~Has(text.v, "op") THEN "KeyError"
    ELSE IF text.v.op = OpIdentified THEN "True"
    ELSE "False"

-----------------------------------------------------------------------------
(* The request operations' pure parts.                                     *)

Request(c) == [op |-> OpRequest, d |-> [requestType |-> RequestType(c), requestId |-> RequestId(c)]]

\* What start_streaming / stop_streaming / get_stream_status do with the text
\* they received: json.loads, then the lookups result["d"]["requestStatus"]...
Evaluate(c, text) ==
    IF ~text.json THEN Raise(c, "JSONDecodeError", text)
    ELSE LET r == text.v IN
    IF ~Has(r, "d") THEN Raise(c, "KeyError", text)
    ELSE IF ~Has(r.d, "requestStatus") THEN Raise(c, "KeyError", text)
    ELSE IF ~Has(r.d.requestStatus, "result") THEN Raise(c, "KeyError", text)
    ELSE IF r.d.requestStatus.result
    THEN IF c = "status"
         THEN IF ~Has(r.d, "responseData") THEN Raise(c, "KeyError", text)
              ELSE LET status == r.d.responseData IN
              IF ~Has(status, "outputActive") THEN Raise(c, "KeyError", text)
              ELSE IF status.outputActive
              THEN IF ~Has(status, "outputDuration") \/ ~Has(status, "outputBytes")
                   THEN Raise(c, "KeyError", text)
                   ELSE Return(c, "None", "streaming", "", text)
              ELSE Return(c, "None", "not_streaming", "", text)
         ELSE Return(c, "None", "success", "", text)
    ELSE IF ~Has(r.d.requestStatus, "comment") THEN Raise(c, "KeyError", text)
    ELSE Return(c, "None", "failed", r.d.requestStatus.comment, text)

-----------------------------------------------------------------------------
(* Wall-clock time.  An instant is a number of seconds since 2024-01-01    *)
(* 00:00:00; the calendar is the Gregorian one that datetime uses.         *)

DaySeconds == 24 * 60 * 60

IsLeap(y) == (y % 4 = 0 /\ y % 100 # 0) \/ y % 400 = 0

DaysInMonth(y, m) ==
    IF m = 2 THEN (IF IsLeap(y) THEN 29 ELSE 28)
    ELSE IF m \in {4, 6, 9, 11} THEN 30 ELSE 31

DaysInYear(y) == IF IsLeap(y) THEN 366 ELSE 365

RECURSIVE DaysBeforeYear(_)
DaysBeforeYear(y) == IF y <= 2024 THEN 0 ELSE DaysBeforeYear(y - 1) + DaysInYear(y - 1)

RECURSIVE DaysBeforeMonth(_, _)
DaysBeforeMonth(y, m) == IF m <= 1 THEN 0 ELSE DaysBeforeMonth(y, m - 1) + DaysInMonth(y, m - 1)

\* datetime(y, m, d, hh, mm, ss) as an instant.
At(y, m, d, hh, mm, ss) ==
    (DaysBeforeYear(y) + DaysBeforeMonth(y, m) + (d - 1)) * DaySeconds
    + hh * 3600 + mm * 60 + ss

Years == 2024 .. 2026

\* The .year, .month and .day of an instant.
YearOf(t) == CHOOSE y \in Years : At(y, 1, 1, 0, 0, 0) <= t /\ t < At(y + 1, 1, 1, 0, 0, 0)
MonthOf(t) ==
    LET y == YearOf(t)
    IN  CHOOSE m \in 1 .. 12 :
            /\ At(y, m, 1, 0, 0, 0) <= t
            /\ t < At(y, m, DaysInMonth(y, m), 0, 0, 0) + DaySeconds
DayOf(t) == ((t - At(YearOf(t), MonthOf(t), 1, 0, 0, 0)) \div DaySeconds) + 1

\* The text of a time of day, as its characters.
Chars(a, b, c, d) == <<a, b, ":", c, d>>

DigitChars == <<"0", "1", "2", "3", "4", "5", "6", "7", "8", "9">>
IsDigit(ch) == \E i \in 1 .. 10 : DigitChars[i] = ch
DigitVal(ch) == (CHOOSE i \in 1 .. 10 : DigitChars[i] = ch) - 1

\* The value of one or two digits.
Number(ds) == IF Len(ds) = 1 THEN DigitVal(ds[1]) ELSE 10 * DigitVal(ds[1]) + DigitVal(ds[2])

AllDigits(ds) == \A i \in 1 .. Len(ds) : IsDigit(ds[i])

\* datetime.strptime(s, "%H:%M"): the hour is 2[0-3] | [0-1]\d | \d, then a
\* colon, then the minute [0-5]\d | \d, and nothing may follow; ValueError otherwise.
Strptime_NoRange(s) ==
    LET colons == {i \in 1 .. Len(s) : s[i] = ":"}
    IN  IF colons = {} THEN [ok |-> FALSE]
        ELSE LET p == CHOOSE i \in colons : \A j \in colons : i <= j
                 hs == SubSeq(s, 1, p - 1)
                 ms == SubSeq(s, p + 1, Len(s))
             IN  IF /\ Len(hs) \in {1, 2} /\ AllDigits(hs)
                    /\ Len(ms) \in {1, 2} /\ AllDigits(ms)
                 THEN [ok |-> TRUE, hour |-> Number(hs), minute |-> Number(ms)]
                 ELSE [ok |-> FALSE]

Strptime(s) ==
    LET colons == {i \in 1 .. Len(s) : s[i] = ":"}
    IN  IF colons = {} THEN [ok |-> FALSE]
        ELSE LET p == CHOOSE i \in colons : \A j \in colons : i <= j
                 hs == SubSeq(s, 1, p - 1)
                 ms == SubSeq(s, p + 1, Len(s))
             IN  IF /\ Len(hs) \in {1, 2} /\ AllDigits(hs) /\ Number(hs) <= 23
                    /\ Len(ms) \in {1, 2} /\ AllDigits(ms) /\ Number(ms) <= 59
                 THEN [ok |-> TRUE, hour |-> Number(hs), minute |-> Number(ms)]
                 ELSE [ok |-> FALSE]

\* "If time has passed today, schedule for tomorrow".
Rollover_Never(target_time, t) == target_time

Rollover(target_time, t) ==
    IF target_time <= t THEN target_time + DaySeconds ELSE target_time

\* schedule_stream up to its first sleep.  The code reads the clock five
\* times: r[1], r[2], r[3] give the year, month and day of the target, r[4] is
\* compared with it, r[5] gives the wait.  strptime runs before any read.
ScheduleCompute(start_time, r) ==
    LET parsed == Strptime(start_time)
    IN  IF ~parsed.ok THEN [exc |-> "ValueError"]
        ELSE LET year == YearOf(r[1])
                 month == MonthOf(r[2])
                 day == DayOf(r[3])
             IN  IF day > DaysInMonth(year, month) THEN [exc |-> "ValueError"]
                 ELSE LET replaced == At(year, month, day, parsed.hour, parsed.minute, 0)
                          target_time == Rollover(replaced, r[4])
                      IN  [exc |-> "", target_time |-> target_time,
                           wait_seconds |-> target_time - r[5]]

-----------------------------------------------------------------------------
(* Inputs the drivers and the environment choose from.                     *)

Passwords == {NoPassword, "", "pw"}

ValidTimes == { Chars("0", "8", "3", "0"), Chars("0", "0", "0", "0") }
InvalidTimes ==
    { Chars("2", "5", "9", "9"), Chars("2", "4", "0", "0"), Chars("a", "b", "c", "d"),
      <<"0", "8", "3", "0">>, <<"0", "8", ":", "3", "0", ":", "0", "0">> }
TimeTexts == ValidTimes \cup InvalidTimes \cup { <<"8", ":", "5">> }

\* duration_minutes: <<>> models None, <<n>> the integer n.
Durations == { <<>>, <<0>>, <<1>> }
DurationTruthy(dm) == dm # <<>> /\ dm[1] # 0

\* Instants at which schedule_stream may find the clock when it is called.
StartInstants ==
    { At(2024, 1, 15, 0, 0, 0), At(2024, 1, 15, 7, 0, 0), At(2024, 1, 15, 8, 29, 59),
      At(2024, 1, 15, 8, 30, 0), At(2024, 1, 15, 9, 0, 0), At(2024, 1, 31, 23, 59, 59),
      At(2024, 2, 28, 23, 59, 59), At(2024, 12, 31, 23, 59, 59) }

\* Seconds the clock may advance between two successive reads of it.
ReadGaps == {0, 1}

\* Seconds by which asyncio.sleep may return late.
SleepLateness == {0, 1}

-----------------------------------------------------------------------------
(* State.                                                                  *)

NoHello == [none |-> TRUE]
NoSched == [pc |-> "none"]

\* The command lines of main: args.time and args.duration are read only by the
\* schedule action; <<>> models an absent (or empty) --time.
NoLoop == [pc |-> "none", due |-> 0, polls |-> 0]
NoArgs == [action |-> "none", time |-> <<>>, duration |-> <<>>]
MainArgs ==
    { [action |-> a, time |-> <<>>, duration |-> <<>>] : a \in Commands }
    \cup
    { [action |-> "schedule", time |-> t, duration |-> dm] :
          t \in TimeTexts \cup {<<>>}, dm \in Durations }

Init ==
    /\ driver \in {"api", "trigger", "main", "scheduler"}
    /\ args \in (IF driver = "main" THEN MainArgs ELSE {NoArgs})
    /\ password \in (IF driver \in {"trigger", "scheduler"} THEN {TriggerPassword}
                     ELSE Passwords)
    /\ websocket = 0
    /\ conns = [i \in 1 .. MaxConns |-> "unopened"]
    /\ identified = FALSE
    /\ inbox = <<>>
    /\ sent = <<>>
    /\ pc = "idle"
    /\ cmd = "none"
    /\ hello_data = NoHello
    /\ sched = NoSched
    /\ result = NoOutcome
    /\ now = At(2024, 1, 1, 0, 0, 0)
    /\ tpc = IF driver = "trigger" THEN "begin" ELSE "none"
    /\ mpc = IF driver = "main" THEN "begin" ELSE "none"
    /\ nDisconnect = 0
    /\ outstanding = 0
    /\ loop = IF driver = "scheduler" THEN [pc |-> "poll", due |-> 0, polls |-> 0] ELSE NoLoop

IsOpen == websocket # 0 /\ conns[websocket] = "open"

\* Where control goes when connect, a request or disconnect finishes: back into
\* schedule_stream when it made the call, else to the driver.
ReturnTo ==
    CASE sched.pc = "in_start" -> "sched_after_start"
      [] sched.pc = "in_stop" -> "sched_after_stop"
      [] OTHER -> "idle"

Finish(outcome) ==
    /\ result' = outcome
    /\ pc' = ReturnTo
    /\ cmd' = "none"
    /\ hello_data' = NoHello

-----------------------------------------------------------------------------
(* The OBS server.                                                         *)

\* The controller sees the server only where it awaits a receive or a send: a
\* message the server sent earlier is the one the next recv() returns, and a
\* close is noticed at the next send or recv.
AtRecv == pc \in {"connect_recv_hello", "connect_recv_identified", "cmd_recv"}
AtSend == pc \in {"connect_identify", "cmd_send"}

ServerSend ==
    /\ IsOpen
    /\ AtRecv
    /\ inbox = <<>>
    /\ \E m \in ServerMsgs : inbox' = Append(inbox, m)
    /\ UNCHANGED <<driver, args, password, outstanding, loop, websocket, conns, identified, sent, pc, cmd,
                   hello_data, sched, result, now, tpc, mpc, nDisconnect>>

ServerClose ==
    /\ IsOpen
    /\ AtRecv \/ AtSend
    /\ conns' = [conns EXCEPT ![websocket] = "closed"]
    /\ UNCHANGED <<driver, args, password, outstanding, loop, websocket, identified, inbox, sent, pc, cmd,
                   hello_data, sched, result, now, tpc, mpc, nDisconnect>>

-----------------------------------------------------------------------------
(* connect()                                                               *)

\* websockets.connect(uri): the transport opens, or the open raises.
ConnectOpen ==
    /\ pc = "connect_open"
    /\ \E how \in {"ok", "refused", "oserror"} :
        IF how = "ok"
        THEN /\ \E id \in 1 .. MaxConns :
                    /\ conns[id] = "unopened"
                    /\ \A j \in 1 .. MaxConns : conns[j] = "unopened" => id <= j
                    /\ websocket' = id
                    /\ conns' = [conns EXCEPT ![id] = "open"]
             /\ identified' = FALSE
             /\ inbox' = <<>>
             /\ sent' = <<>>
             /\ outstanding' = 0
             /\ pc' = "connect_recv_hello"
             /\ UNCHANGED <<cmd, hello_data, result>>
        ELSE /\ Finish(Return("connect", "False",
                              IF how = "refused" THEN "could_not_connect" ELSE "connection_error",
                              IF how = "refused" THEN "ConnectionRefusedError" ELSE "OSError",
                              NoReply))
             /\ UNCHANGED <<websocket, conns, identified, inbox, sent, outstanding>>
    /\ UNCHANGED <<driver, args, password, loop, sched, now, tpc, mpc, nDisconnect>>

\* hello_message = await recv(); hello_data = json.loads(hello_message)
ConnectRecvHello ==
    /\ pc = "connect_recv_hello"
    /\ inbox # <<>> \/ ~IsOpen
    /\ IF inbox = <<>>
       THEN /\ Finish(Return("connect", "False", "connection_error", "ConnectionClosed", NoReply))
            /\ UNCHANGED inbox
       ELSE /\ inbox' = Tail(inbox)
            /\ IF Head(inbox).json
               THEN /\ hello_data' = Head(inbox).v
                    /\ pc' = "connect_identify"
                    /\ UNCHANGED <<cmd, result>>
               ELSE Finish(Return("connect", "False", "connection_error", "JSONDecodeError",
                                  Head(inbox)))
    /\ UNCHANGED <<driver, args, password, outstanding, loop, websocket, conns, identified, sent, sched, now, tpc,
                   mpc, nDisconnect>>

\* await self._send_identify(hello_data)
ConnectSendIdentify ==
    /\ pc = "connect_identify"
    /\ LET built == BuildIdentify(hello_data, password)
       IN  IF built.exc # ""
           THEN /\ Finish(Return("connect", "False", "connection_error", built.exc, NoReply))
                /\ UNCHANGED sent
           ELSE IF ~IsOpen
           THEN /\ Finish(Return("connect", "False", "connection_error", "ConnectionClosed",
                                 NoReply))
                /\ UNCHANGED sent
           ELSE /\ sent' = Append(sent, built.msg)
                /\ pc' = "connect_recv_identified"
                /\ hello_data' = NoHello
                /\ UNCHANGED <<cmd, result>>
    /\ UNCHANGED <<driver, args, password, outstanding, loop, websocket, conns, identified, inbox, sched, now, tpc,
                   mpc, nDisconnect>>

\* identified_message = await recv(); ...; return identified_data["op"] == 2
ConnectRecvIdentified ==
    /\ pc = "connect_recv_identified"
    /\ inbox # <<>> \/ ~IsOpen
    /\ IF inbox = <<>>
       THEN /\ Finish(Return("connect", "False", "connection_error", "ConnectionClosed", NoReply))
            /\ UNCHANGED <<inbox, identified>>
       ELSE LET verdict == IdentifiedVerdict(Head(inbox))
            IN  /\ inbox' = Tail(inbox)
                /\ identified' = (verdict = "True")
                /\ Finish(Return("connect",
                                 IF verdict = "True" THEN "True" ELSE "False",
                                 CASE verdict = "True" -> "identified"
                                   [] verdict = "False" -> "failed_to_identify"
                                   [] OTHER -> "connection_error",
                                 IF verdict \in {"True", "False"} THEN "" ELSE verdict,
                                 Head(inbox)))
    /\ UNCHANGED <<driver, args, password, outstanding, loop, websocket, conns, sent, sched, now, tpc, mpc,
                   nDisconnect>>

-----------------------------------------------------------------------------
(* start_streaming(), stop_streaming(), get_stream_status()                *)

CmdSend_NoRecv ==
    /\ pc = "cmd_send"
    /\ IsOpen
    /\ sent' = Append(sent, Request(cmd))
    /\ outstanding' = outstanding + 1
    /\ Finish(Return(cmd, "None", "", "", NoReply))
    /\ UNCHANGED <<driver, args, password, loop, websocket, conns, identified, inbox, sched,
                   now, tpc, mpc, nDisconnect>>

\* await self.websocket.send(json.dumps(request))
CmdSend ==
    /\ pc = "cmd_send"
    /\ IF websocket = 0
       THEN /\ Finish(Raise(cmd, "AttributeError", NoReply))
            /\ UNCHANGED <<sent, outstanding>>
       ELSE IF conns[websocket] # "open"
       THEN /\ Finish(Raise(cmd, "ConnectionClosed", NoReply))
            /\ UNCHANGED <<sent, outstanding>>
       ELSE /\ sent' = Append(sent, Request(cmd))
            /\ outstanding' = outstanding + 1
            /\ pc' = "cmd_recv"
            /\ UNCHANGED <<cmd, hello_data, result>>
    /\ UNCHANGED <<driver, args, password, loop, websocket, conns, identified, inbox, sched, now, tpc,
                   mpc, nDisconnect>>

\* response = await self.websocket.recv(); result = json.loads(response); ...
CmdRecv ==
    /\ pc = "cmd_recv"
    /\ inbox # <<>> \/ ~IsOpen
    /\ IF inbox = <<>>
       THEN /\ Finish(Raise(cmd, "ConnectionClosed", NoReply))
            /\ UNCHANGED <<inbox, outstanding>>
       ELSE /\ inbox' = Tail(inbox)
            /\ outstanding' = outstanding - 1
            /\ Finish(Evaluate(cmd, Head(inbox)))
    /\ UNCHANGED <<driver, args, password, loop, websocket, conns, identified, sent, sched, now, tpc,
                   mpc, nDisconnect>>

-----------------------------------------------------------------------------
(* disconnect()                                                            *)

\* "if self.websocket: await self.websocket.close()": the connections after
\* it, and the exception it raises ("" when none).
DisconnectEffect_NoGuard(ws, cs) ==
    IF ws = 0 THEN [conns |-> cs, exc |-> "AttributeError"]
    ELSE [conns |-> [cs EXCEPT ![ws] = "closed"], exc |-> ""]

DisconnectEffect(ws, cs) ==
    IF ws # 0 THEN [conns |-> [cs EXCEPT ![ws] = "closed"], exc |-> ""]
    ELSE [conns |-> cs, exc |-> ""]

Disconnect ==
    /\ pc = "disconnect"
    /\ LET eff == DisconnectEffect(websocket, conns)
       IN  /\ conns' = eff.conns
           /\ inbox' = IF websocket # 0 THEN <<>> ELSE inbox
           /\ Finish(IF eff.exc # "" THEN Raise("disconnect", eff.exc, NoReply)
                     ELSE Return("disconnect", "None",
                                 IF websocket # 0 THEN "disconnected" ELSE "", "", NoReply))
    /\ nDisconnect' = nDisconnect + 1
    /\ UNCHANGED <<driver, args, password, outstanding, loop, websocket, identified, sent, sched, now, tpc, mpc>>

-----------------------------------------------------------------------------
(* schedule_stream()                                                       *)

Max(a, b) == IF a >= b THEN a ELSE b

\* The except clauses of schedule_stream: ValueError (JSONDecodeError is one)
\* prints the invalid-format message, any other exception the scheduling error.
Caught(exc) ==
    IF exc \in {"ValueError", "JSONDecodeError"}
    THEN Return("schedule", "None", "invalid_time_format", exc, NoReply)
    ELSE Return("schedule", "None", "scheduling_error", exc, NoReply)

SchedFinish(outcome) ==
    /\ result' = outcome
    /\ pc' = "idle"
    /\ sched' = NoSched
    /\ cmd' = "none"

\* The parse of start_time, the five clock reads, the target and the wait.
SchedCompute ==
    /\ pc = "sched_compute"
    /\ IF ~Strptime(sched.start_time).ok
       THEN /\ SchedFinish(Caught("ValueError"))
            /\ UNCHANGED now
       ELSE \E t0 \in {t \in StartInstants : t >= now} \cup {now} :
            \E g2 \in ReadGaps, g3 \in ReadGaps, g4 \in ReadGaps, g5 \in ReadGaps :
                LET r == <<t0, t0 + g2, t0 + g2 + g3, t0 + g2 + g3 + g4,
                           t0 + g2 + g3 + g4 + g5>>
                    c == ScheduleCompute(sched.start_time, r)
                IN  IF c.exc # ""
                    THEN /\ SchedFinish(Caught(c.exc))
                         /\ now' = r[3]
                    ELSE /\ sched' = [sched EXCEPT !.pc = "sleep",
                                                   !.target_time = c.target_time,
                                                   !.wait_seconds = c.wait_seconds,
                                                   !.reads = r]
                         /\ now' = r[5]
                         /\ pc' = "sched_sleep"
                         /\ UNCHANGED <<cmd, result>>
    /\ UNCHANGED <<driver, args, password, outstanding, loop, websocket, conns, identified, inbox, sent, hello_data,
                   tpc, mpc, nDisconnect>>

\* await asyncio.sleep(wait_seconds); await self.start_streaming()
SchedSleep ==
    /\ pc = "sched_sleep"
    /\ \E late \in SleepLateness : now' = now + Max(sched.wait_seconds, 0) + late
    /\ sched' = [sched EXCEPT !.pc = "in_start", !.wait_seconds = 0, !.reads = <<>>]
    /\ pc' = "cmd_send"
    /\ cmd' = "start"
    /\ UNCHANGED <<driver, args, password, outstanding, loop, websocket, conns, identified, inbox, sent, hello_data,
                   result, tpc, mpc, nDisconnect>>

\* start_streaming() came back: "if duration_minutes:" decides on the stop.
SchedAfterStart ==
    /\ pc = "sched_after_start"
    /\ IF result.kind = "raise"
       THEN SchedFinish(Caught(result.exc))
       ELSE IF DurationTruthy(sched.duration_minutes)
       THEN /\ sched' = [sched EXCEPT !.pc = "sleep_stop"]
            /\ pc' = "sched_sleep_stop"
            /\ result' = NoOutcome
            /\ UNCHANGED cmd
       ELSE SchedFinish(Return("schedule", "None", "", "", NoReply))
    /\ UNCHANGED <<driver, args, password, outstanding, loop, websocket, conns, identified, inbox, sent, hello_data,
                   now, tpc, mpc, nDisconnect>>

\* await asyncio.sleep(duration_minutes * 60); await self.stop_streaming()
SchedSleepStop ==
    /\ pc = "sched_sleep_stop"
    /\ \E late \in SleepLateness :
            now' = now + Max(sched.duration_minutes[1] * 60, 0) + late
    /\ sched' = [sched EXCEPT !.pc = "in_stop"]
    /\ pc' = "cmd_send"
    /\ cmd' = "stop"
    /\ UNCHANGED <<driver, args, password, outstanding, loop, websocket, conns, identified, inbox, sent, hello_data,
                   result, tpc, mpc, nDisconnect>>

SchedAfterStop ==
    /\ pc = "sched_after_stop"
    /\ IF result.kind = "raise"
       THEN SchedFinish(Caught(result.exc))
       ELSE SchedFinish(Return("schedule", "None", "", "", NoReply))
    /\ UNCHANGED <<driver, args, password, outstanding, loop, websocket, conns, identified, inbox, sent, hello_data,
                   now, tpc, mpc, nDisconnect>>

-----------------------------------------------------------------------------
(* Any sequence of calls on one controller.                                *)

NewSched(st, dm) ==
    [pc |-> "compute", start_time |-> st, duration_minutes |-> dm,
     target_time |-> 0, wait_seconds |-> 0, reads |-> <<>>]

\* The caller calls connect(), a request operation or disconnect(), whatever
\* the calls before and their outcomes.
ApiCall ==
    /\ driver = "api"
    /\ pc = "idle"
    /\ result' = NoOutcome
    /\ \/ /\ \E id \in 1 .. MaxConns : conns[id] = "unopened"
          /\ pc' = "connect_open"
          /\ UNCHANGED cmd
       \/ /\ Len(sent) < MaxSent
          /\ \E c \in Commands : cmd' = c
          /\ pc' = "cmd_send"
       \/ /\ nDisconnect < MaxDisconnects
          /\ pc' = "disconnect"
          /\ UNCHANGED cmd
    /\ UNCHANGED <<driver, args, password, outstanding, loop, websocket, conns, identified, inbox, sent,
                   hello_data, sched, now, tpc, mpc, nDisconnect>>

-----------------------------------------------------------------------------
(* The trigger start_stream of obs-auto.py.                                *)

\* try: ... finally: disconnect() runs however the try block ends.
FinallyRuns_OnlyOnReturn(kind) == kind = "return"

FinallyRuns(kind) == kind \in {"return", "raise"}

\* controller = OBSController(...); await controller.connect()
TrigConnect ==
    /\ driver = "trigger"
    /\ tpc = "begin"
    /\ pc = "idle"
    /\ tpc' = "connect"
    /\ pc' = "connect_open"
    /\ UNCHANGED <<driver, args, password, outstanding, loop, websocket, conns, identified, inbox, sent, cmd,
                   hello_data, sched, result, now, mpc, nDisconnect>>

\* if await controller.connect(): try: await controller.start_streaming()
TrigAfterConnect ==
    /\ tpc = "connect"
    /\ pc = "idle"
    /\ IF result.val = "True"
       THEN /\ tpc' = "try"
            /\ pc' = "cmd_send"
            /\ cmd' = "start"
       ELSE /\ tpc' = "done"
            /\ UNCHANGED <<pc, cmd>>
    /\ UNCHANGED <<driver, args, password, outstanding, loop, websocket, conns, identified, inbox, sent,
                   hello_data, sched, result, now, mpc, nDisconnect>>

\* finally: await controller.disconnect()
TrigFinally ==
    /\ tpc = "try"
    /\ pc = "idle"
    /\ IF FinallyRuns(result.kind)
       THEN /\ tpc' = IF result.kind = "raise" THEN "finally_raise" ELSE "finally_return"
            /\ pc' = "disconnect"
       ELSE /\ tpc' = "raised"
            /\ UNCHANGED pc
    /\ UNCHANGED <<driver, args, password, outstanding, loop, websocket, conns, identified, inbox, sent, cmd,
                   hello_data, sched, result, now, mpc, nDisconnect>>

\* The trigger ends: it returns, or the exception of the try block propagates.
TrigEnd ==
    /\ tpc \in {"finally_raise", "finally_return"}
    /\ pc = "idle"
    /\ tpc' = IF tpc = "finally_raise" \/ result.kind = "raise" THEN "raised" ELSE "done"
    /\ UNCHANGED <<driver, args, password, outstanding, loop, websocket, conns, identified, inbox, sent, pc,
                   cmd, hello_data, sched, result, now, mpc, nDisconnect>>

-----------------------------------------------------------------------------
(* The scheduler loop of obs-auto.py.                                      *)

\* The entries of STREAM_SCHEDULE, one job each, and the seconds of time.sleep.
NumJobs == 3
PollSeconds == 30

\* asyncio.run(start_stream()) gives control back to run_pending once the
\* coroutine has finished, by return or by exception.
AsyncioRunReturned_AtOnce(t) == TRUE

AsyncioRunReturned(t) == t \in {"done", "raised"}

\* schedule.run_pending(): the jobs that are due run one after the other.
\* Several are due at one poll when the loop was held up past their times.
LoopPoll ==
    /\ driver = "scheduler"
    /\ loop.pc = "poll"
    /\ loop.polls < MaxPolls
    /\ \E k \in 0 .. NumJobs :
            loop' = [pc |-> IF k = 0 THEN "sleep" ELSE "run", due |-> k,
                     polls |-> loop.polls + 1]
    /\ UNCHANGED <<driver, args, password, websocket, conns, identified, inbox, sent, pc,
                   cmd, hello_data, sched, result, now, tpc, mpc, nDisconnect, outstanding>>

\* trigger_stream_start(): asyncio.run(start_stream()) on a new OBSController.
LoopRunJob ==
    /\ loop.pc = "run"
    /\ loop.due > 0
    /\ loop' = [loop EXCEPT !.pc = "in_job", !.due = loop.due - 1]
    /\ websocket' = 0
    /\ identified' = FALSE
    /\ inbox' = <<>>
    /\ sent' = <<>>
    /\ outstanding' = 0
    /\ hello_data' = NoHello
    /\ cmd' = "none"
    /\ result' = NoOutcome
    /\ tpc' = "connect"
    /\ pc' = "connect_open"
    /\ UNCHANGED <<driver, args, password, conns, sched, now, mpc, nDisconnect>>

\* The job is over: run_pending goes on to the next due job, or returns; an
\* exception of start_stream leaves run_pending and the while loop.
LoopJobReturn ==
    /\ loop.pc = "in_job"
    /\ AsyncioRunReturned(tpc)
    /\ loop' = [loop EXCEPT !.pc = CASE tpc = "raised" -> "crashed"
                                     [] loop.due > 0 -> "run"
                                     [] OTHER -> "sleep"]
    /\ UNCHANGED <<driver, args, password, websocket, conns, identified, inbox, sent, pc,
                   cmd, hello_data, sched, result, now, tpc, mpc, nDisconnect, outstanding>>

\* time.sleep(30), then the next turn of "while True".
LoopSleep ==
    /\ loop.pc = "sleep"
    /\ now' = now + PollSeconds
    /\ loop' = [loop EXCEPT !.pc = "poll"]
    /\ UNCHANGED <<driver, args, password, websocket, conns, identified, inbox, sent, pc,
                   cmd, hello_data, sched, result, tpc, mpc, nDisconnect, outstanding>>

-----------------------------------------------------------------------------
(* main() of obs_live.py.                                                  *)

\* controller = OBSController(args.host, args.port, args.password); connect()
MainConnect ==
    /\ driver = "main"
    /\ mpc = "begin"
    /\ pc = "idle"
    /\ mpc' = "connect"
    /\ pc' = "connect_open"
    /\ UNCHANGED <<driver, args, password, outstanding, loop, websocket, conns, identified, inbox, sent, cmd,
                   hello_data, sched, result, now, tpc, nDisconnect>>

\* if await controller.connect(): try: the action args.action names
MainAfterConnect ==
    /\ mpc = "connect"
    /\ pc = "idle"
    /\ IF result.val # "True"
       THEN /\ mpc' = "done"
            /\ UNCHANGED <<pc, cmd, sched, result>>
       ELSE IF args.action \in Commands
       THEN /\ mpc' = "try"
            /\ pc' = "cmd_send"
            /\ cmd' = args.action
            /\ UNCHANGED <<sched, result>>
       ELSE IF args.time = <<>>
       \* "--time required for schedule action": the return leaves through finally
       THEN /\ mpc' = "finally_return"
            /\ pc' = "disconnect"
            /\ result' = Return("main", "None", "time_required", "", NoReply)
            /\ UNCHANGED <<cmd, sched>>
       ELSE /\ mpc' = "try"
            /\ pc' = "sched_compute"
            /\ sched' = NewSched(args.time, args.duration)
            /\ UNCHANGED <<cmd, result>>
    /\ UNCHANGED <<driver, args, password, outstanding, loop, websocket, conns, identified, inbox, sent,
                   hello_data, now, tpc, nDisconnect>>

\* finally: await controller.disconnect()
MainFinally ==
    /\ mpc = "try"
    /\ pc = "idle"
    /\ mpc' = IF result.kind = "raise" THEN "finally_raise" ELSE "finally_return"
    /\ pc' = "disconnect"
    /\ UNCHANGED <<driver, args, password, outstanding, loop, websocket, conns, identified, inbox, sent, cmd,
                   hello_data, sched, result, now, tpc, nDisconnect>>

MainEnd ==
    /\ mpc \in {"finally_raise", "finally_return"}
    /\ pc = "idle"
    /\ mpc' = IF mpc = "finally_raise" \/ result.kind = "raise" THEN "raised" ELSE "done"
    /\ UNCHANGED <<driver, args, password, outstanding, loop, websocket, conns, identified, inbox, sent, pc,
                   cmd, hello_data, sched, result, now, tpc, nDisconnect>>

-----------------------------------------------------------------------------
(* Specifications.                                                         *)

ServerNext == ServerSend \/ ServerClose

ControllerNext ==
    \/ ConnectOpen \/ ConnectRecvHello \/ ConnectSendIdentify \/ ConnectRecvIdentified
    \/ CmdSend \/ CmdRecv
    \/ Disconnect
    \/ SchedCompute \/ SchedSleep \/ SchedAfterStart \/ SchedSleepStop \/ SchedAfterStop
    \/ ApiCall
    \/ TrigConnect \/ TrigAfterConnect \/ TrigFinally \/ TrigEnd
    \/ MainConnect \/ MainAfterConnect \/ MainFinally \/ MainEnd
    \/ LoopPoll \/ LoopRunJob \/ LoopJobReturn \/ LoopSleep

Next == ServerNext \/ ControllerNext

Spec == Init /\ [][Next]_vars

\* The event loop runs the controller's coroutine whenever it can go on; nothing
\* obliges the server to send.
FairSpec == Spec /\ WF_vars(ControllerNext)

-----------------------------------------------------------------------------
(* The session states of the design, read off the controller's state.      *)

ConnectPcs ==
    {"connect_open", "connect_recv_hello", "connect_identify", "connect_recv_identified"}

\* Ready: connect() received the Identified acknowledgement on the connection
\* self.websocket names, and that connection has not been closed since.
Ready == IsOpen /\ identified /\ pc \notin ConnectPcs

Last(q) == q[Len(q)]

\* This step sends a Request envelope.
SendsRequest == Len(sent') = Len(sent) + 1 /\ Last(sent').op = OpRequest

\* A JSON reply that carries a requestId other than the one of request c.
Mismatched(c, text) ==
    /\ text.json
    /\ Has(text.v, "d")
    /\ Has(text.v.d, "requestId")
    /\ text.v.d.requestId # RequestId(c)

\* A JSON reply whose requestStatus.result is false.
Declined(text) ==
    /\ text.json
    /\ Has(text.v, "d")
    /\ Has(text.v.d, "requestStatus")
    /\ Has(text.v.d.requestStatus, "result")
    /\ ~text.v.d.requestStatus.result

-----------------------------------------------------------------------------
(* Claims.                                                                 *)

\* C1: a Request envelope (op 6) is sent only while the session is Ready, and a
\* request operation called in any other state raises and sends nothing.
C1_RequestOnlyWhenReady ==
    [][ /\ SendsRequest => Ready
        /\ (pc = "cmd_send" /\ pc' # pc /\ ~Ready)
               => (sent' = sent /\ result'.kind = "raise") ]_vars

\* C2: in the trigger, once connect() has reported ready, disconnect() has run
\* exactly once when the trigger ends, however start_streaming ended (and not
\* at all when connect() reported failure); it never runs twice.
C2_TriggerDisconnectsOnce ==
    driver = "trigger" =>
        /\ nDisconnect <= 1
        /\ tpc \in {"done", "raised"} => nDisconnect = (IF identified THEN 1 ELSE 0)

\* The trigger ended by the exception start_streaming raised, after one disconnect().
C2_Witness ==
    /\ driver = "trigger"
    /\ tpc = "raised"
    /\ identified
    /\ nDisconnect = 1

\* C3: when the Greeting carries an authentication challenge and no secret is
\* configured, connect() returns False (authentication required) and has sent
\* nothing on the connection: no Identify, nor anything else.
C3_AuthRequiredSendsNothing ==
    [][ ( /\ pc = "connect_identify"
          /\ pc' # pc
          /\ Has(hello_data, "d")
          /\ Has(hello_data.d, "authentication")
          /\ ~Truthy(password) )
        => ( /\ pc' \notin ConnectPcs
             /\ result'.op = "connect"
             /\ result'.val = "False"
             /\ result'.detail = "AuthRequired"
             /\ ~identified'
             /\ sent' = <<>> ) ]_vars

\* connect() has just failed for want of a password, with nothing sent.
C3_Witness ==
    /\ pc = "idle"
    /\ result.op = "connect"
    /\ result.detail = "AuthRequired"
    /\ ~Truthy(password)
    /\ sent = <<>>
    /\ IsOpen

C5_MismatchIsProtocolError ==
    (result.op \in Commands /\ Mismatched(result.op, result.reply))
        => (result.kind = "raise" /\ result.printed = "")

\* C6: a request operation whose reply has requestStatus.result = false reports
\* the failure with the reply's comment, also when the reply has no comment.
C6_DeclinedIsRequestFailed ==
    (result.op \in Commands /\ Declined(result.reply)
                            /\ ~Mismatched(result.op, result.reply))
        => /\ result.kind = "return"
           /\ result.printed = "failed"
           /\ Has(result.reply.v.d.requestStatus, "comment")
                  => result.detail = result.reply.v.d.requestStatus.comment

\* All five clock reads of schedule_stream fell on one instant.
Steady == \A i \in 1 .. Len(sched.reads) : sched.reads[i] = sched.reads[1]

\* C7: when schedule_stream finds the clock at one instant t, the target is
\* today at HH:MM if that is still ahead of t and tomorrow at HH:MM otherwise;
\* it is never at or before t.
C7_TargetTodayOrTomorrow ==
    (pc = "sched_sleep" /\ Steady) =>
        LET t == sched.reads[1]
            hm == Strptime(sched.start_time)
            tod == hm.hour * 3600 + hm.minute * 60
            midnight == t - (t % DaySeconds)
        IN  /\ sched.target_time =
                   (IF tod > t % DaySeconds THEN midnight + tod
                    ELSE midnight + DaySeconds + tod)
            /\ sched.target_time > t
            /\ sched.wait_seconds = sched.target_time - t

\* 08:30 asked at 09:00 on 15 January: the target is 08:30 on 16 January.
C7_Witness ==
    /\ pc = "sched_sleep"
    /\ Steady
    /\ sched.start_time = Chars("0", "8", "3", "0")
    /\ sched.reads[1] = At(2024, 1, 15, 9, 0, 0)
    /\ sched.target_time = At(2024, 1, 16, 8, 30, 0)

\* C8: schedule_stream with an unparsable time text reports the invalid
\* format and returns: no wait, nothing sent, nothing received, clock not read.
C8_InvalidTimeNoAction ==
    [][ (pc = "sched_compute" /\ pc' # pc /\ sched.start_time \in InvalidTimes)
        => ( /\ pc' = "idle"
             /\ sched' = NoSched
             /\ result'.op = "schedule"
             /\ result'.printed = "invalid_time_format"
             /\ result'.detail = "ValueError"
             /\ sent' = sent
             /\ inbox' = inbox
             /\ conns' = conns
             /\ now' = now ) ]_vars

\* schedule_stream("25:99") has just returned on a ready session.
C8_Witness ==
    /\ pc = "idle"
    /\ mpc = "try"
    /\ args.time = Chars("2", "5", "9", "9")
    /\ result.op = "schedule"
    /\ result.printed = "invalid_time_format"
    /\ Len(sent) = 1
    /\ IsOpen

\* C9: disconnect() never raises; it leaves self.websocket as it is and its
\* connection, if any, closed; with no connection, or one already closed, it
\* changes nothing.
C9_DisconnectIdempotent ==
    [][ (pc = "disconnect" /\ pc' # pc)
        => ( /\ result'.op = "disconnect"
             /\ result'.kind = "return"
             /\ websocket' = websocket
             /\ websocket # 0 => conns'[websocket] = "closed"
             /\ (websocket = 0 \/ conns[websocket] = "closed")
                    => UNCHANGED <<conns, identified, sent, inbox>> ) ]_vars

\* A second disconnect() in a row has returned on a closed connection.
C9_Witness ==
    /\ pc = "idle"
    /\ nDisconnect = 2
    /\ result.op = "disconnect"
    /\ websocket # 0
    /\ conns[websocket] = "closed"

\* C10: every wait for a server message ends.
C10_ReceiveEnds == AtRecv ~> ~AtRecv

\* C11: when the Greeting (op 0) carries no authentication field, the Identify
\* that connect() sends carries no authentication token, whether or not a
\* secret is configured, and an acknowledgement with op 2 that follows makes
\* connect() return True.
C11_NoChallengeNoToken ==
    [][ /\ ( /\ pc = "connect_identify"
             /\ pc' # pc
             /\ IsOpen
             /\ Has(hello_data, "op") /\ hello_data.op = 0
             /\ Has(hello_data, "d") /\ ~Has(hello_data.d, "authentication") )
           => ( /\ pc' = "connect_recv_identified"
                /\ Len(sent') = 1
                /\ sent'[1].op = OpIdentify
                /\ ~Has(sent'[1].d, "authentication") )
        /\ ( /\ pc = "connect_recv_identified"
             /\ pc' # pc
             /\ Len(sent) = 1 /\ ~Has(sent[1].d, "authentication")
             /\ inbox # <<>>
             /\ Head(inbox).json
             /\ Has(Head(inbox).v, "op") /\ Head(inbox).v.op = OpIdentified )
           => ( result'.op = "connect" /\ result'.val = "True" ) ]_vars

\* connect() returned True with a secret configured, after an Identify that
\* carries no token.
C11_Witness ==
    /\ pc = "idle"
    /\ result.op = "connect" /\ result.val = "True"
    /\ Truthy(password)
    /\ Len(sent) = 1 /\ ~Has(sent[1].d, "authentication")

\* The failures of connect(), by the outcome it recorded: the transport could
\* not be opened or broke, or the server's messages were not a handshake.
TransportFailure(o) ==
    /\ o.op = "connect"
    /\ o.detail \in {"ConnectionRefusedError", "OSError", "ConnectionClosed"}

ProtocolFailure(o) ==
    /\ o.op = "connect"
    /\ o.printed = "failed_to_identify"
          \/ o.detail \in {"AuthRequired", "JSONDecodeError", "KeyError"}

\* What connect() gives its caller: the value returned, and the line printed.
Report(o) == <<o.val, o.printed>>

\* What connect() reports for a rejected acknowledgement, and for a message
\* that is malformed or asks for a secret that is not configured.
ProtocolReports == { <<"False", "failed_to_identify">>, <<"False", "connection_error">> }

\* C12: what connect() reports for a transport-level error is none of the
\* reports it gives for a protocol or authentication failure.
C12_TransportReportedDistinctly ==
    /\ ProtocolFailure(result) => Report(result) \in ProtocolReports
    /\ TransportFailure(result) => Report(result) \notin ProtocolReports

\* Secrets, salts and challenges to vary one input of the token at a time.
Secrets == { p \in Passwords \cup {TriggerPassword} : Truthy(p) }
Salts == {"s1", "s2", "s"}
Challenges == {"c1", "c2", "1c1"}

\* C13: when the Greeting carries a challenge and a secret is configured, the
\* token of the Identify sent is base64(sha256(base64(sha256(secret + salt)) +
\* challenge)) over the salt and the challenge of that Greeting, and the token
\* for any other secret, any other salt or any other challenge (the two other
\* inputs kept) differs from it.
C13_TokenDerivation ==
    [][ ( /\ pc = "connect_identify"
          /\ pc' = "connect_recv_identified"
          /\ Has(hello_data, "d") /\ Has(hello_data.d, "authentication")
          /\ Truthy(password) )
        => LET auth_data == hello_data.d.authentication
               sentMsg == Last(sent')
           IN  /\ sentMsg.op = OpIdentify
               /\ Has(sentMsg.d, "authentication")
               /\ sentMsg.d.authentication
                    = B64Sha256(B64Sha256(password \o auth_data.salt) \o auth_data.challenge)
               /\ \A p2 \in Secrets \ {password} :
                    AuthResponse(p2, auth_data.salt, auth_data.challenge)
                        # sentMsg.d.authentication
               /\ \A s2 \in Salts \ {auth_data.salt} :
                    AuthResponse(password, s2, auth_data.challenge)
                        # sentMsg.d.authentication
               /\ \A c2 \in Challenges \ {auth_data.challenge} :
                    AuthResponse(password, auth_data.salt, c2)
                        # sentMsg.d.authentication ]_vars

\* An Identify with the token for the salt and challenge of the second Greeting
\* has been sent.
C13_Witness ==
    /\ pc = "connect_recv_identified"
    /\ Truthy(password)
    /\ Len(sent) = 1
    /\ Has(sent[1].d, "authentication")
    /\ sent[1].d.authentication = B64Sha256(B64Sha256(password \o "s2") \o "c2")

\* A parsed message that is a Greeting (Hello): its op is 0.
IsGreeting(hd) == Has(hd, "op") /\ hd.op = 0

\* This step sends an Identify message.
SendsIdentify == Len(sent') = Len(sent) + 1 /\ Last(sent').op = OpIdentify

\* C14: the handshake is receive Greeting, send Identify, receive the
\* acknowledgement, in this order: Identify is sent at most once on a
\* connection, as the first message sent and only after a Greeting was received;
\* nothing else is sent and no other message is received during connect(); and
\* connect() returns True only from the receive of the acknowledgement that
\* follows the one Identify.
C14_HandshakeOrder ==
    [][ /\ SendsIdentify
            => (pc = "connect_identify" /\ sent = <<>> /\ IsGreeting(hello_data))
        /\ (pc \in ConnectPcs /\ sent' # sent /\ sent' # <<>>) => SendsIdentify
        /\ (pc \in ConnectPcs \ {"connect_open"} /\ inbox' # inbox /\ inbox # <<>>)
            => ( /\ pc \in {"connect_recv_hello", "connect_recv_identified"}
                 /\ inbox' = Tail(inbox) )
        /\ (result' # result /\ result'.op = "connect" /\ result'.val = "True")
            => ( /\ pc = "connect_recv_identified"
                 /\ Len(sent) = 1 /\ sent[1].op = OpIdentify
                 /\ sent' = sent ) ]_vars

\* C15: no run of start_stream (the trigger) or of main ends with a transport
\* that was opened and never closed, in particular after a handshake that failed
\* on an open transport.
C15_NoTransportLeftOpen ==
    (tpc \in {"done", "raised"} /\ driver = "trigger") \/ mpc \in {"done", "raised"}
        => \A id \in 1 .. MaxConns : conns[id] # "open"

\* The positions in q of the Requests of type t.
Positions(q, t) ==
    { i \in 1 .. Len(q) : q[i].op = OpRequest /\ q[i].d.requestType = t }

\* C16: in schedule_stream (run by main) with a valid time, StartStream is sent
\* only once the wait is over; StopStream is sent only after a StartStream and
\* only when a duration was supplied; and when a duration was supplied, whatever
\* the integer, a schedule_stream that ends without an error has sent StopStream
\* after StartStream.
C16_StopFollowsStart ==
    (driver = "main" /\ args.action = "schedule")
    => /\ Positions(sent, "StartStream") # {} => sched.pc \notin {"compute", "sleep"}
       /\ \A j \in Positions(sent, "StopStream") :
            /\ args.duration # <<>>
            /\ \E i \in Positions(sent, "StartStream") : i < j
       /\ ( /\ result.op = "schedule" /\ result.printed = ""
            /\ args.duration # <<>> )
          => \E i \in Positions(sent, "StartStream"), j \in Positions(sent, "StopStream") :
                i < j

\* C17: on one connection at most one request is outstanding: a request whose
\* reply has not been received exists only while its operation waits in its one
\* receive, or on a connection that has been closed, so no Request is sent
\* while an earlier one waits for its reply.
C17_OneOutstanding ==
    /\ outstanding \in {0, 1}
    /\ outstanding = 1 => (pc = "cmd_recv" \/ ~IsOpen)
    /\ pc = "cmd_recv" => outstanding = 1
    /\ pc = "cmd_send" /\ IsOpen => outstanding = 0

\* Two requests were sent on one open connection and both replies received.
C17_Witness ==
    /\ IsOpen
    /\ pc = "idle"
    /\ outstanding = 0
    /\ Cardinality({ i \in 1 .. Len(sent) : sent[i].op = OpRequest }) = 2

\* C18: when the first message received on a connection cannot be parsed or is
\* not a Greeting (op 0), connect() fails there: it returns False, sends no
\* Identify and does not go on to wait for an acknowledgement.
C18_NonGreetingFailsConnect ==
    [][ /\ ( /\ pc = "connect_recv_hello"
             /\ pc' # pc
             /\ inbox # <<>>
             /\ ~Head(inbox).json )
           => (pc' \notin ConnectPcs /\ result'.val = "False" /\ sent' = <<>> /\ ~Ready')
        /\ ( /\ pc = "connect_identify"
             /\ pc' # pc
             /\ ~IsGreeting(hello_data) )
           => (pc' \notin ConnectPcs /\ result'.val = "False" /\ sent' = <<>> /\ ~Ready') ]_vars

\* The seconds since midnight of the clock time the text st requests.
RequestedTimeOfDay(st) == Strptime(st).hour * 3600 + Strptime(st).minute * 60

\* C19: the wait schedule_stream computes is positive and at most 24 hours and
\* ends at an instant whose time of day is the requested HH:MM, however the
\* clock moved between the reads; and StartStream is not sent before that
\* instant.
C19_WaitReachesTarget ==
    /\ pc = "sched_sleep"
        => /\ sched.wait_seconds > 0
           /\ sched.wait_seconds <= DaySeconds
           /\ sched.target_time % DaySeconds = RequestedTimeOfDay(sched.start_time)
           /\ sched.target_time > sched.reads[1]
    /\ sched.pc = "in_start" => now >= sched.target_time

\* C20: in the scheduler loop, whenever run_pending is about to start the next
\* due job, the loop is about to poll or to sleep, or the loop has ended, no
\* trigger is under way and the session of the last trigger, if its connect()
\* succeeded, is disconnected: triggers run one at a time, also when several
\* jobs are due at one poll.
C20_OneTriggerAtATime ==
    (driver = "scheduler" /\ loop.pc \in {"poll", "run", "sleep", "crashed"})
        => /\ tpc \in {"none", "done", "raised"}
           /\ pc = "idle"
           /\ ~(IsOpen /\ identified)

\* The second job due at one poll holds a ready session, after the first job's
\* session was disconnected.
C20_Witness ==
    /\ driver = "scheduler"
    /\ loop.pc = "in_job"
    /\ loop.polls = 1
    /\ websocket = 2
    /\ conns[1] = "closed"
    /\ nDisconnect = 1
    /\ Ready

====
